---- MODULE Spec2Model ----
(***************************************************************************)
(* Model of the Zacks ranking ingestion program (rogerzhuang/zacks).       *)
(*                                                                         *)
(* The program modelled is the pooled, counter-keeping main of             *)
(* src/unnamed/part_000 (lines 103-328) with the schema of                 *)
(* src/db-setup.js.  One step of the model is one resumption of a JS       *)
(* continuation: the code that runs from the settlement of one awaited     *)
(* promise to the next await.  The relational store is PostgreSQL at its   *)
(* default READ COMMITTED isolation: a statement that meets a row written  *)
(* by a transaction still in progress waits for that transaction to end.   *)
(***************************************************************************)
EXTENDS Integers, Sequences, FiniteSets, TLC

\* ------------------------------------------------------------------ bounds
MaxRows == 2
MaxRace == 3
MaxRetriesBound == 3

\* ------------------------------------------------------- program constants
DefaultMaxRetries == 3
PoolMax == 10

\* ------------------------------------------------------------- JS values
\* A JS value is a record [t, n, s]: t its type tag, n its number, s its string.
JsNull == [t |-> "null", n |-> 0, s |-> ""]
JsNum(k) == [t |-> "num", n |-> k, s |-> ""]
JsStr(x) == [t |-> "str", n |-> 0, s |-> x]
JsDate(ms) == [t |-> "date", n |-> ms, s |-> ""]

\* v == null (true of null and undefined)
IsNullish(v) == v.t = "null"

\* !v
Falsy(v) == \/ v.t = "null"
            \/ v.t = "str" /\ v.s = ""
            \/ v.t = "num" /\ v.n = 0

\* Number(v) for the strings of the model: 0 reads as NaN here only for "abc".
NumericStrings == {"", "1", "2"}

\* isNaN(v): Number(v) is NaN
IsNaN(v) == v.t = "str" /\ v.s \notin NumericStrings

\* The time values of the model, in days: a parsed date, or the wall clock.
InvalidTime == 0
NowTimes == {8}

\* new Date(s).getTime(): InvalidTime stands for NaN
DateParse(s) ==
  CASE s = "2024-01-01" -> 1
    [] OTHER -> InvalidTime

\* new Date(v).getTime() for a string or a Date
DateOf(v) == IF v.t = "date" THEN v.n ELSE DateParse(v.s)

\* ------------------------------------------------------ provider responses
\* What api.getData(ticker) settles with.  kind: "throw" (the call rejects),
\* "null", "string" (a non-null value that is no object) or "object".
Response(k, rank, text, at) ==
  [kind |-> k, zacksRank |-> rank, zacksRankText |-> text, updatedAt |-> at]

ThrowResponse == Response("throw", JsNull, JsNull, JsNull)
NullResponse == Response("null", JsNull, JsNull, JsNull)
StringResponse == Response("string", JsNull, JsNull, JsNull)

RankLabel(k) == IF k = 1 THEN "Strong Buy" ELSE "Buy"

GoodPayloads ==
  { Response("object", JsNum(k), JsStr(RankLabel(k)), at) :
      k \in {1, 2}, at \in {JsStr("2024-01-01"), JsStr("garbage"), JsNull} }

ParseablePayloads == { p \in GoodPayloads : DateOf(p.updatedAt) # InvalidTime }

BadPayloads ==
  { Response("object", JsNull, JsStr("Buy"), JsStr("2024-01-01")),
    Response("object", JsNum(1), JsNull, JsStr("2024-01-01")),
    Response("object", JsStr("abc"), JsStr("Buy"), JsStr("2024-01-01")),
    Response("object", JsNum(1), JsStr(""), JsStr("2024-01-01")) }

Responses ==
  {ThrowResponse, NullResponse, StringResponse} \cup GoodPayloads \cup BadPayloads

NoData == Response("none", JsNull, JsNull, JsNull)

\* ------------------------------------------------------------ the input
Row(tk, nm) == [ticker |-> tk, name |-> nm]
RowSet == {Row("AAPL", "Apple"), Row("AAPL", "Apple Inc."), Row("ZZZ", "Zed")}

\* Every stocks.csv of at most n rows
CsvFiles(n) == UNION { [1..k -> RowSet] : k \in 0..n }

\* ------------------------------------------------------------- the state
VARIABLES
  rows,              \* stocks.csv: the sequence of rows the Row Source yields
  maxRetries,        \* getDataWithRetry's maxRetries parameter
  provider,          \* the provider of a run that answers by ticker, <<>> else
  run,               \* which run of main this is (1 = the first)
  mainPc,            \* main: "Setup", "Running", "PoolEnd", "Exited"
  fatal,             \* "none", "setup" (setup() rejected), "rowsource" (stream error)
  exitStatus,        \* the argument of process.exit, -1 before it is called
  summary,           \* the printed counters, <<>> while nothing is printed
  emitted,           \* number of 'data' events so far = Len(pendingPromises)
  ended,             \* the stream has emitted 'end'
  csvState,          \* processCSV's promise: "pending", "resolved", "rejected"
  pc,                \* pc[u]: where row u's unit is suspended
  attempt,           \* attempt[u]: getDataWithRetry's loop variable
  data,              \* data[u]: the payload getDataWithRetry returned
  res,               \* res[u]: the last query's result (an id, or inserted as 1/0)
  stockId,           \* stockId[u]: what getOrCreateStockId returned, 0 before
  err,               \* err[u]: code of the error the unit's store call raised
  calls,             \* calls[u]: the provider calls and waits of the fetch under way
  lastKind,          \* lastKind[u]: kind of the last response api.getData gave
  outcome,           \* outcome[u]: how the unit reached Done
  totalProcessed, successfulSaves, failedRetrievals, failedSaves,
  noRankingStocks, totalInserts, totalUpdates, failedProcessing,
  checkedOut,        \* clients of the pool that are checked out
  poolEnding,        \* pool.end() has been called
  stocks,            \* table stocks, with the row versions of open transactions
  rankings,          \* table zacks_rankings, likewise
  stocksSeq,         \* stocks_id_seq: the next SERIAL value
  rankingsSeq,       \* zacks_rankings_id_seq
  lastWrite,         \* per (stock_id, updatedAt): the write that committed last
  firstRun,          \* the tables as the first run left them
  queue,             \* index.js: the units whose query the one client holds,
                     \* in the order sent; the head is on the wire
  hung               \* index.js: the unit whose round-trip never returns, 0: none

counters ==
  <<totalProcessed, successfulSaves, failedRetrievals, failedSaves,
    noRankingStocks, totalInserts, totalUpdates, failedProcessing>>

mainVars == <<mainPc, fatal, exitStatus, summary, run, firstRun>>
streamVars == <<emitted, ended, csvState>>
unitVars == <<pc, attempt, data, res, stockId, err, calls, lastKind, outcome>>
poolVars == <<checkedOut, poolEnding>>
dbVars == <<stocks, rankings, stocksSeq, rankingsSeq, lastWrite>>
inputVars == <<rows, maxRetries, provider>>
clientVars == <<queue, hung>>

vars ==
  <<inputVars, clientVars, mainVars, streamVars, unitVars, counters, poolVars,
    dbVars>>

Units == 1..Len(rows)

\* ---------------------------------------------------------- the store
\* A row of stocks: (id, ticker, name) plus its transaction state. committed:
\* the row is visible to other transactions; writer: the unit whose open
\* transaction inserted or updated it (0: none); pending: the name that
\* transaction wrote.
StockRow(i, tk, nm, c, w, p) ==
  [id |-> i, ticker |-> tk, name |-> nm, committed |-> c, writer |-> w,
   pending |-> p]

\* A row of zacks_rankings, likewise.
RankingRow(i, sid, text, rank, at, c, w, ptext, prank) ==
  [id |-> i, stock_id |-> sid, zacksRankText |-> text, zacksRank |-> rank,
   updatedAt |-> at, committed |-> c, writer |-> w,
   pendingText |-> ptext, pendingRank |-> prank]

\* SELECT id FROM stocks WHERE ticker = $1: the committed rows
SelectStock(tbl, tk) == { r \in tbl : r.committed /\ r.ticker = tk }

\* A statement on key tk waits while another open transaction wrote the row.
StockBusy(tbl, tk, u) ==
  \E r \in tbl : r.ticker = tk /\ r.writer # 0 /\ r.writer # u

\* A plain INSERT INTO stocks: a row of the ticker raises unique_violation.
InsertStockPlain(tbl, seq, tk, nm, u) ==
  IF \E r \in tbl : r.ticker = tk
    THEN [tbl |-> tbl, id |-> 0, code |-> "23505"]
    ELSE [tbl |-> tbl \cup {StockRow(seq, tk, nm, FALSE, u, nm)},
          id |-> seq, code |-> "none"]

\* INSERT INTO stocks ... ON CONFLICT (ticker) DO UPDATE SET name = $2
\* RETURNING id.  The result: the table, the id returned, the error code.
InsertStock(tbl, seq, tk, nm, u) ==
  IF \E r \in tbl : r.ticker = tk
    THEN LET old == CHOOSE r \in tbl : r.ticker = tk
         IN  [tbl |-> (tbl \ {old}) \cup
                      {[old EXCEPT !.writer = u, !.pending = nm]},
              id |-> old.id, code |-> "none"]
    ELSE [tbl |-> tbl \cup {StockRow(seq, tk, nm, FALSE, u, nm)},
          id |-> seq, code |-> "none"]

RankingBusy(tbl, sid, at, u) ==
  \E r \in tbl :
    r.stock_id = sid /\ r.updatedAt = at /\ r.writer # 0 /\ r.writer # u

\* The statement with ON CONFLICT ... DO NOTHING: a conflicting row keeps its
\* values.
InsertRankingDoNothing(tbl, seq, sid, text, rank, at, u) ==
  IF \E r \in tbl : r.stock_id = sid /\ r.updatedAt = at
    THEN LET old == CHOOSE r \in tbl : r.stock_id = sid /\ r.updatedAt = at
         IN  [tbl |-> (tbl \ {old}) \cup
                      {[old EXCEPT !.writer = u,
                                   !.pendingText = old.zacksRankText,
                                   !.pendingRank = old.zacksRank]},
              inserted |-> FALSE, code |-> "none"]
    ELSE [tbl |-> tbl \cup
                  {RankingRow(seq, sid, text, rank, at, FALSE, u, text, rank)},
          inserted |-> TRUE, code |-> "none"]

\* The statement on a table without UNIQUE(stock_id, updatedAt): every write
\* adds a row.
InsertRankingAppend(tbl, seq, sid, text, rank, at, u) ==
  [tbl |-> tbl \cup
           {RankingRow(seq, sid, text, rank, at, FALSE, u, text, rank)},
   inserted |-> TRUE, code |-> "none"]

\* The statement with RETURNING true AS inserted: an update reports inserted.
InsertRankingAlwaysInserted(tbl, seq, sid, text, rank, at, u) ==
  IF \E r \in tbl : r.stock_id = sid /\ r.updatedAt = at
    THEN LET old == CHOOSE r \in tbl : r.stock_id = sid /\ r.updatedAt = at
         IN  [tbl |-> (tbl \ {old}) \cup
                      {[old EXCEPT !.writer = u, !.pendingText = text,
                                   !.pendingRank = rank]},
              inserted |-> TRUE, code |-> "none"]
    ELSE [tbl |-> tbl \cup
                  {RankingRow(seq, sid, text, rank, at, FALSE, u, text, rank)},
          inserted |-> TRUE, code |-> "none"]

\* INSERT INTO zacks_rankings ... ON CONFLICT (stock_id, updatedAt) DO UPDATE
\* SET zacksRankText = EXCLUDED.zacksRankText, zacksRank = EXCLUDED.zacksRank
\* RETURNING (xmax = 0) AS inserted.  The result: the table, inserted, the
\* error code.
InsertRanking(tbl, seq, sid, text, rank, at, u) ==
  IF \E r \in tbl : r.stock_id = sid /\ r.updatedAt = at
    THEN LET old == CHOOSE r \in tbl : r.stock_id = sid /\ r.updatedAt = at
         IN  [tbl |-> (tbl \ {old}) \cup
                      {[old EXCEPT !.writer = u, !.pendingText = text,
                                   !.pendingRank = rank]},
              inserted |-> FALSE, code |-> "none"]
    ELSE [tbl |-> tbl \cup
                  {RankingRow(seq, sid, text, rank, at, FALSE, u, text, rank)},
          inserted |-> TRUE, code |-> "none"]

\* COMMIT of unit u's transaction: its row versions become the visible ones.
CommitStocks(tbl, u) ==
  { IF r.writer = u
      THEN [r EXCEPT !.committed = TRUE, !.writer = 0, !.name = r.pending,
                     !.pending = ""]
      ELSE r : r \in tbl }

CommitRankings(tbl, u) ==
  { IF r.writer = u
      THEN [r EXCEPT !.committed = TRUE, !.writer = 0,
                     !.zacksRankText = r.pendingText,
                     !.zacksRank = r.pendingRank,
                     !.pendingText = "", !.pendingRank = 0]
      ELSE r : r \in tbl }

\* ROLLBACK (or the loss of the connection): its row versions are dropped.
AbortStocks(tbl, u) ==
  { IF r.writer = u THEN [r EXCEPT !.writer = 0, !.pending = ""] ELSE r :
      r \in { x \in tbl : ~(x.writer = u /\ ~x.committed) } }

AbortRankings(tbl, u) ==
  { IF r.writer = u
      THEN [r EXCEPT !.writer = 0, !.pendingText = "", !.pendingRank = 0]
      ELSE r :
      r \in { x \in tbl : ~(x.writer = u /\ ~x.committed) } }

\* ------------------------------------------------------------ initial state
\* main is about to run on an empty store, for the csv files and the
\* maxRetries values given.
InitOn(files, retries, providers) ==
  /\ rows \in files
  /\ maxRetries \in retries
  /\ provider \in providers
  /\ run = 1
  /\ mainPc = "Setup"
  /\ fatal = "none"
  /\ exitStatus = -1
  /\ summary = <<>>
  /\ emitted = 0
  /\ ended = FALSE
  /\ csvState = "pending"
  /\ pc = [u \in Units |-> "Idle"]
  /\ attempt = [u \in Units |-> 0]
  /\ data = [u \in Units |-> NoData]
  /\ res = [u \in Units |-> 0]
  /\ stockId = [u \in Units |-> 0]
  /\ err = [u \in Units |-> "none"]
  /\ calls = [u \in Units |-> <<>>]
  /\ lastKind = [u \in Units |-> "none"]
  /\ outcome = [u \in Units |-> "none"]
  /\ totalProcessed = 0
  /\ successfulSaves = 0
  /\ failedRetrievals = 0
  /\ failedSaves = 0
  /\ noRankingStocks = 0
  /\ totalInserts = 0
  /\ totalUpdates = 0
  /\ failedProcessing = 0
  /\ checkedOut = 0
  /\ poolEnding = FALSE
  /\ stocks = {}
  /\ rankings = {}
  /\ stocksSeq = 1
  /\ rankingsSeq = 1
  /\ lastWrite = {}
  /\ firstRun = <<>>
  /\ queue = <<>>
  /\ hung = 0

Init == InitOn(CsvFiles(MaxRows), {DefaultMaxRetries}, {<<>>})

\* ------------------------------------------------------------------ main
\* await setup() resolves; getPool(); processCSV() opens the stream.
SetupResolves ==
  /\ mainPc = "Setup"
  /\ mainPc' = "Running"
  /\ UNCHANGED <<inputVars, clientVars, fatal, exitStatus, summary, run, firstRun,
                 streamVars, unitVars, counters, poolVars, dbVars>>

\* await setup() rejects: main rejects, .catch(console.error) logs it and
\* .finally calls process.exit(0).
SetupRejects ==
  /\ mainPc = "Setup"
  /\ mainPc' = "Exited"
  /\ fatal' = "setup"
  /\ exitStatus' = 0
  /\ UNCHANGED <<inputVars, clientVars, summary, run, firstRun, streamVars, unitVars,
                 counters, poolVars, dbVars>>

\* pool.end() resolves once every client is back: the finally block prints
\* the counters, main resolves and .finally calls process.exit(0).
PoolEndResolves ==
  /\ mainPc = "PoolEnd"
  /\ checkedOut = 0
  /\ summary' = counters
  /\ mainPc' = "Exited"
  /\ exitStatus' = 0
  /\ UNCHANGED <<inputVars, clientVars, fatal, run, firstRun, streamVars, unitVars,
                 counters, poolVars, dbVars>>

\* pool.end() rejects: the finally block throws before it prints, main
\* rejects, .catch(console.error) logs it and .finally calls process.exit(0).
PoolEndRejects ==
  /\ mainPc = "PoolEnd"
  /\ mainPc' = "Exited"
  /\ exitStatus' = 0
  /\ UNCHANGED <<inputVars, clientVars, fatal, summary, run, firstRun, streamVars,
                 unitVars, counters, poolVars, dbVars>>

\* ------------------------------------------------------------ processCSV
\* The catch with increments that write back a value read when the run
\* started: an increment made meanwhile by another unit is lost.
UnitCatchStale(n) ==
  /\ failedProcessing' = 1
  /\ noRankingStocks' = n + 1

\* The unit boundary's catch: failedProcessing++ and noRankingStocks++.
\* n is what the unit added to noRankingStocks before it threw.
UnitCatch(n) ==
  /\ failedProcessing' = failedProcessing + 1
  /\ noRankingStocks' = noRankingStocks + n + 1

\* stream.on("data"): the unit of the next row starts and runs to its first
\* await, the api.getData call of attempt 1.
StreamData ==
  /\ mainPc = "Running"
  /\ csvState = "pending"
  /\ ~ended
  /\ emitted < Len(rows)
  /\ LET u == emitted + 1 IN
       /\ emitted' = u
       /\ totalProcessed' = totalProcessed + 1
       /\ pc' = [pc EXCEPT ![u] = "ApiCall"]
       /\ attempt' = [attempt EXCEPT ![u] = 1]
       /\ calls' = [calls EXCEPT ![u] = <<"call">>]
  /\ UNCHANGED <<inputVars, clientVars, mainVars, ended, csvState, data, res, stockId,
                 err, lastKind, outcome, successfulSaves, failedRetrievals, failedSaves,
                 noRankingStocks, totalInserts, totalUpdates, failedProcessing,
                 poolVars, dbVars>>

\* stream.on("end"): Promise.all(pendingPromises) is formed.
StreamEnd ==
  /\ mainPc = "Running"
  /\ csvState = "pending"
  /\ ~ended
  /\ emitted = Len(rows)
  /\ ended' = TRUE
  /\ UNCHANGED <<inputVars, clientVars, mainVars, emitted, csvState, unitVars, counters,
                 poolVars, dbVars>>

\* stream.on("error"): processCSV rejects, main's catch logs the error and
\* its finally block calls pool.end().
StreamError ==
  /\ mainPc = "Running"
  /\ csvState = "pending"
  /\ ~ended
  /\ csvState' = "rejected"
  /\ fatal' = "rowsource"
  /\ mainPc' = "PoolEnd"
  /\ poolEnding' = TRUE
  /\ UNCHANGED <<inputVars, clientVars, exitStatus, summary, run, firstRun, emitted,
                 ended, unitVars, counters, checkedOut, dbVars>>

\* The units Promise.all(pendingPromises) waits for.
PendingPromises == 1..emitted

\* The run is declared complete at 'end', whatever the units have reached.
AllSettledAtEnd == TRUE

\* Every promise of pendingPromises is fulfilled.
AllSettled == \A u \in PendingPromises : pc[u] = "Done"

AnyRejected == \E u \in PendingPromises : pc[u] = "Rejected"

\* Promise.all(pendingPromises) settles: fulfilled, .then logs "CSV file
\* processing completed." and resolves; rejected, .catch(reject) rejects and
\* main's catch logs the error. main's finally block calls pool.end().
ProcessCSVSettles ==
  /\ mainPc = "Running"
  /\ csvState = "pending"
  /\ ended
  /\ IF AnyRejected
       THEN csvState' = "rejected"
       ELSE AllSettled /\ csvState' = "resolved"
  /\ mainPc' = "PoolEnd"
  /\ poolEnding' = TRUE
  /\ UNCHANGED <<inputVars, clientVars, fatal, exitStatus, summary, run, firstRun,
                 emitted, ended, unitVars, counters, checkedOut, dbVars>>

\* A unit runs until process.exit.
Alive == mainPc # "Exited"

\* Row u's unit reaches the end of its async function: its promise resolves
\* and its locals (attempt, data, the query result, the caught error) are gone.
Settle(u, how, to) ==
  /\ pc' = [pc EXCEPT ![u] = to]
  /\ outcome' = [outcome EXCEPT ![u] = how]
  /\ attempt' = [attempt EXCEPT ![u] = 0]
  /\ data' = [data EXCEPT ![u] = NoData]
  /\ res' = [res EXCEPT ![u] = 0]
  /\ err' = [err EXCEPT ![u] = "none"]
  /\ calls' = [calls EXCEPT ![u] = <<>>]

\* The unit's async function returns: its promise is fulfilled.
Finish(u, how) == Settle(u, how, "Done")

\* An error thrown in a store call of row u's unit, after the call added n to
\* noRankingStocks, propagates out of the call and the unit's promise rejects.
ThrowUncaught(u, n, how) ==
  /\ noRankingStocks' = noRankingStocks + n
  /\ UNCHANGED failedProcessing
  /\ Settle(u, how, "Rejected")

\* An error thrown in a store call of row u's unit, after the call added n to
\* noRankingStocks, reaches the try/catch of the unit, which counts it; the
\* unit's async function returns.
Throw(u, n, how) ==
  /\ UnitCatch(n)
  /\ Finish(u, how)

\* ------------------------------------------------------ getDataWithRetry
\* A null response is thrown to the catch of the retry loop like an error.
RetriedWithNull(resp) == resp.kind \in {"throw", "string", "null"}

\* The catch of the retry loop takes a rejected api.getData call and the
\* "Invalid data received from API" error thrown for a non-object.
Retried(resp) == resp.kind \in {"throw", "string"}

\* data.zacksRank == null || data.zacksRankText == null
Incomplete(resp) == IsNullish(resp.zacksRank) \/ IsNullish(resp.zacksRankText)

\* The date check that always takes new Date().
NormalizedAtNow(at, now) == JsDate(now)

\* data.updatedAt after the date check: the parsed date, or new Date()
NormalizedAt(at, now) ==
  IF at.t \in {"str", "date"} /\ DateOf(at) # InvalidTime
    THEN JsDate(DateOf(at))
    ELSE JsDate(now)

\* The loop stops one attempt early.
RetryLeftEarly(n) == n + 1 < maxRetries

\* The loop goes on after a caught error: attempt < maxRetries
RetryLeft(n) == n < maxRetries

\* await api.getData(ticker) settles with resp while the wall clock reads
\* now; the unit runs to its next await or to its end.
GetDataSettles(u, resp, now) ==
  /\ Alive
  /\ pc[u] = "ApiCall"
  /\ lastKind' = [lastKind EXCEPT ![u] = resp.kind]
  /\ IF Retried(resp) /\ RetryLeft(attempt[u])
       THEN /\ pc' = [pc EXCEPT ![u] = "Backoff"]
            /\ calls' = [calls EXCEPT ![u] = Append(calls[u], "wait")]
            /\ UNCHANGED <<attempt, data, res, err, outcome, failedRetrievals,
                           noRankingStocks>>
       ELSE IF Retried(resp)
       THEN /\ failedRetrievals' = failedRetrievals + 1
            /\ noRankingStocks' = noRankingStocks + 1
            /\ Finish(u, "Failed")
       ELSE IF resp.kind = "null"
       THEN /\ noRankingStocks' = noRankingStocks + 1
            /\ Finish(u, "NoRanking")
            /\ UNCHANGED failedRetrievals
       ELSE IF Incomplete(resp)
       THEN /\ noRankingStocks' = noRankingStocks + 1
            /\ Finish(u, "Incomplete")
            /\ UNCHANGED failedRetrievals
       ELSE /\ data' = [data EXCEPT ![u] =
                          [resp EXCEPT !.updatedAt =
                             NormalizedAt(resp.updatedAt, now)]]
            /\ pc' = [pc EXCEPT ![u] = "R_Connect"]
            /\ attempt' = [attempt EXCEPT ![u] = 0]
            /\ calls' = [calls EXCEPT ![u] = <<>>]
            /\ UNCHANGED <<res, err, outcome, failedRetrievals,
                           noRankingStocks>>
  /\ UNCHANGED <<inputVars, clientVars, mainVars, streamVars, stockId, totalProcessed,
                 successfulSaves, failedSaves, totalInserts, totalUpdates,
                 failedProcessing, poolVars, dbVars>>

\* The setTimeout of the backoff fires: attempt++ and the next api.getData call.
BackoffElapsed(u) ==
  /\ Alive
  /\ pc[u] = "Backoff"
  /\ attempt' = [attempt EXCEPT ![u] = attempt[u] + 1]
  /\ calls' = [calls EXCEPT ![u] = Append(calls[u], "call")]
  /\ pc' = [pc EXCEPT ![u] = "ApiCall"]
  /\ UNCHANGED <<inputVars, clientVars, mainVars, streamVars, data, res, stockId, err,
                 lastKind, outcome, counters, poolVars, dbVars>>

\* ---------------------------------------------------- getOrCreateStockId
\* await pool.connect() resolves with a client; BEGIN is sent.
ResolveConnects(u) ==
  /\ Alive
  /\ pc[u] = "R_Connect"
  /\ ~poolEnding
  /\ checkedOut < PoolMax
  /\ checkedOut' = checkedOut + 1
  /\ pc' = [pc EXCEPT ![u] = "R_Begin"]
  /\ UNCHANGED <<inputVars, clientVars, mainVars, streamVars, attempt, data, res, stockId,
                 err, calls, lastKind, outcome, counters, poolEnding, dbVars>>

\* await pool.connect() rejects (the pool is ending, or no connection can be
\* made): the error reaches the unit boundary.
ResolveConnectRejects(u) ==
  /\ Alive
  /\ pc[u] = "R_Connect"
  /\ Throw(u, 0, "ResolveError")
  /\ UNCHANGED <<inputVars, clientVars, mainVars, streamVars, stockId, lastKind, totalProcessed,
                 successfulSaves, failedRetrievals, failedSaves, totalInserts,
                 totalUpdates, poolVars, dbVars>>

\* BEGIN resolves; the SELECT is sent.
ResolveBegins(u) ==
  /\ Alive
  /\ pc[u] = "R_Begin"
  /\ pc' = [pc EXCEPT ![u] = "R_Select"]
  /\ UNCHANGED <<inputVars, clientVars, mainVars, streamVars, attempt, data, res, stockId,
                 err, calls, lastKind, outcome, counters, poolVars, dbVars>>

\* The SELECT resolves: with a row, COMMIT is sent; with none, the INSERT.
ResolveSelects(u) ==
  /\ Alive
  /\ pc[u] = "R_Select"
  /\ LET found == SelectStock(stocks, rows[u].ticker) IN
       IF found # {}
         THEN /\ res' = [res EXCEPT ![u] = (CHOOSE r \in found : TRUE).id]
              /\ pc' = [pc EXCEPT ![u] = "R_Commit"]
         ELSE /\ pc' = [pc EXCEPT ![u] = "R_Insert"]
              /\ UNCHANGED res
  /\ UNCHANGED <<inputVars, clientVars, mainVars, streamVars, attempt, data, stockId, err,
                 calls, lastKind, outcome, counters, poolVars, dbVars>>

\* The INSERT ... ON CONFLICT resolves, once no other open transaction holds
\* the ticker's row: COMMIT is sent (ROLLBACK if the store raised an error).
ResolveInserts(u) ==
  /\ Alive
  /\ pc[u] = "R_Insert"
  /\ ~StockBusy(stocks, rows[u].ticker, u)
  /\ LET r == InsertStock(stocks, stocksSeq, rows[u].ticker, rows[u].name, u)
     IN  /\ stocks' = r.tbl
         /\ stocksSeq' = stocksSeq + 1
         /\ res' = [res EXCEPT ![u] = r.id]
         /\ err' = [err EXCEPT ![u] = r.code]
         /\ pc' = [pc EXCEPT ![u] =
                     IF r.code = "none" THEN "R_Commit" ELSE "R_Rollback"]
  /\ UNCHANGED <<inputVars, clientVars, mainVars, streamVars, attempt, data, stockId,
                 calls, lastKind, outcome, counters, poolVars, rankings, rankingsSeq,
                 lastWrite>>

\* !data.zacksRankText || data.zacksRank == null || data.updatedAt == null
\* || isNaN(data.zacksRank)
InvalidData(d) ==
  \/ Falsy(d.zacksRankText)
  \/ IsNullish(d.zacksRank)
  \/ IsNullish(d.updatedAt)
  \/ IsNaN(d.zacksRank)

\* COMMIT resolves: the client is released and the id returned; the unit
\* enters saveZacksRanking, which returns on invalid data and else awaits
\* pool.connect().
ResolveCommits(u) ==
  /\ Alive
  /\ pc[u] = "R_Commit"
  /\ stocks' = CommitStocks(stocks, u)
  /\ checkedOut' = checkedOut - 1
  /\ stockId' = [stockId EXCEPT ![u] = res[u]]
  /\ IF InvalidData(data[u])
       THEN /\ noRankingStocks' = noRankingStocks + 1
            /\ Finish(u, "Rejected")
       ELSE /\ pc' = [pc EXCEPT ![u] = "W_Connect"]
            /\ res' = [res EXCEPT ![u] = 0]
            /\ UNCHANGED <<attempt, data, err, calls, outcome,
                           noRankingStocks>>
  /\ UNCHANGED <<inputVars, clientVars, mainVars, streamVars, lastKind, totalProcessed,
                 successfulSaves, failedRetrievals, failedSaves, totalInserts,
                 totalUpdates, failedProcessing, poolEnding, rankings,
                 stocksSeq, rankingsSeq, lastWrite>>

\* BEGIN, the SELECT, the INSERT or COMMIT rejects: the catch sends ROLLBACK.
ResolveQueryRejects(u) ==
  /\ Alive
  /\ pc[u] \in {"R_Begin", "R_Select", "R_Insert", "R_Commit"}
  /\ err' = [err EXCEPT ![u] = "fault"]
  /\ res' = [res EXCEPT ![u] = 0]
  /\ pc' = [pc EXCEPT ![u] = "R_Rollback"]
  /\ UNCHANGED <<inputVars, clientVars, mainVars, streamVars, attempt, data, stockId,
                 calls, lastKind, outcome, counters, poolVars, dbVars>>

\* ROLLBACK settles: resolved, the catch rethrows the error; rejected, the
\* catch throws ROLLBACK's error. Either way the transaction is over, the
\* client is released and the error reaches the unit boundary.
ResolveRollbackSettles(u) ==
  /\ Alive
  /\ pc[u] = "R_Rollback"
  /\ stocks' = AbortStocks(stocks, u)
  /\ checkedOut' = checkedOut - 1
  /\ Throw(u, 0, "ResolveError")
  /\ UNCHANGED <<inputVars, clientVars, mainVars, streamVars, stockId, lastKind, totalProcessed,
                 successfulSaves, failedRetrievals, failedSaves, totalInserts,
                 totalUpdates, poolEnding, rankings, stocksSeq, rankingsSeq,
                 lastWrite>>

\* ------------------------------------------------------ saveZacksRanking
\* The query parameters [stockId, data.zacksRankText, data.zacksRank,
\* data.updatedAt] as the store reads them: VARCHAR, INTEGER, TIMESTAMP.
ParamText(d) == d.zacksRankText.s
ParamRank(d) == d.zacksRank.n
ParamAt(d) == d.updatedAt.n

\* await pool.connect() resolves with a client; BEGIN is sent.
WriteConnects(u) ==
  /\ Alive
  /\ pc[u] = "W_Connect"
  /\ ~poolEnding
  /\ checkedOut < PoolMax
  /\ checkedOut' = checkedOut + 1
  /\ pc' = [pc EXCEPT ![u] = "W_Begin"]
  /\ UNCHANGED <<inputVars, clientVars, mainVars, streamVars, attempt, data, res, stockId,
                 err, calls, lastKind, outcome, counters, poolEnding, dbVars>>

\* await pool.connect() rejects, outside saveZacksRanking's try: the error
\* reaches the unit boundary.
WriteConnectRejects(u) ==
  /\ Alive
  /\ pc[u] = "W_Connect"
  /\ Throw(u, 0, "WriteErrorUncounted")
  /\ UNCHANGED <<inputVars, clientVars, mainVars, streamVars, stockId, lastKind, totalProcessed,
                 successfulSaves, failedRetrievals, failedSaves, totalInserts,
                 totalUpdates, poolVars, dbVars>>

\* BEGIN resolves; the INSERT ... ON CONFLICT is sent.
WriteBegins(u) ==
  /\ Alive
  /\ pc[u] = "W_Begin"
  /\ pc' = [pc EXCEPT ![u] = "W_Insert"]
  /\ UNCHANGED <<inputVars, clientVars, mainVars, streamVars, attempt, data, res, stockId,
                 err, calls, lastKind, outcome, counters, poolVars, dbVars>>

\* The INSERT ... ON CONFLICT resolves, once no other open transaction holds
\* the (stock_id, updatedAt) row; COMMIT is sent.
WriteInserts(u) ==
  /\ Alive
  /\ pc[u] = "W_Insert"
  /\ ~RankingBusy(rankings, stockId[u], ParamAt(data[u]), u)
  /\ LET r == InsertRanking(rankings, rankingsSeq, stockId[u],
                            ParamText(data[u]), ParamRank(data[u]),
                            ParamAt(data[u]), u)
     IN  /\ rankings' = r.tbl
         /\ rankingsSeq' = rankingsSeq + 1
         /\ res' = [res EXCEPT ![u] = IF r.inserted THEN 1 ELSE 0]
         /\ err' = [err EXCEPT ![u] = r.code]
         /\ pc' = [pc EXCEPT ![u] =
                     IF r.code = "none" THEN "W_Commit" ELSE "W_Rollback"]
  /\ UNCHANGED <<inputVars, clientVars, mainVars, streamVars, attempt, data, stockId,
                 calls, lastKind, outcome, counters, poolVars, stocks, stocksSeq,
                 lastWrite>>

\* The committed writes of lastWrite on the (stock_id, updatedAt) of unit u.
WritesBefore(u) ==
  { w \in lastWrite :
      w.stock_id = stockId[u] /\ w.updatedAt = ParamAt(data[u]) }

\* The write of unit u, as lastWrite records it when it commits: its values,
\* and in written every zacksRank committed to the pair so far.
WriteOf(u) ==
  [stock_id |-> stockId[u], updatedAt |-> ParamAt(data[u]),
   zacksRankText |-> ParamText(data[u]), zacksRank |-> ParamRank(data[u]),
   written |-> UNION { w.written : w \in WritesBefore(u) }
               \cup {ParamRank(data[u])}]

\* COMMIT resolves and successfulSaves++ runs for an insert only.
WriteCommitsInsertsOnly(u) ==
  /\ Alive
  /\ pc[u] = "W_Commit"
  /\ rankings' = CommitRankings(rankings, u)
  /\ lastWrite' = (lastWrite \ WritesBefore(u)) \cup {WriteOf(u)}
  /\ IF res[u] = 1
       THEN /\ totalInserts' = totalInserts + 1
            /\ successfulSaves' = successfulSaves + 1
            /\ UNCHANGED totalUpdates
       ELSE /\ totalUpdates' = totalUpdates + 1
            /\ UNCHANGED <<totalInserts, successfulSaves>>
  /\ checkedOut' = checkedOut - 1
  /\ Finish(u, "Saved")
  /\ UNCHANGED <<inputVars, clientVars, mainVars, streamVars, stockId, lastKind, totalProcessed,
                 failedRetrievals, failedSaves, noRankingStocks,
                 failedProcessing, poolEnding, stocks, stocksSeq, rankingsSeq>>

\* COMMIT resolves: totalInserts++ or totalUpdates++ by result.rows[0].inserted,
\* successfulSaves++, the client is released and the unit ends.
WriteCommits(u) ==
  /\ Alive
  /\ pc[u] = "W_Commit"
  /\ rankings' = CommitRankings(rankings, u)
  /\ lastWrite' = (lastWrite \ WritesBefore(u)) \cup {WriteOf(u)}
  /\ IF res[u] = 1
       THEN totalInserts' = totalInserts + 1 /\ UNCHANGED totalUpdates
       ELSE totalUpdates' = totalUpdates + 1 /\ UNCHANGED totalInserts
  /\ successfulSaves' = successfulSaves + 1
  /\ checkedOut' = checkedOut - 1
  /\ Finish(u, "Saved")
  /\ UNCHANGED <<inputVars, clientVars, mainVars, streamVars, stockId, lastKind, totalProcessed,
                 failedRetrievals, failedSaves, noRankingStocks,
                 failedProcessing, poolEnding, stocks, stocksSeq, rankingsSeq>>

\* BEGIN, the INSERT or COMMIT rejects: the catch sends ROLLBACK.
WriteQueryRejects(u) ==
  /\ Alive
  /\ pc[u] \in {"W_Begin", "W_Insert", "W_Commit"}
  /\ err' = [err EXCEPT ![u] = "fault"]
  /\ res' = [res EXCEPT ![u] = 0]
  /\ pc' = [pc EXCEPT ![u] = "W_Rollback"]
  /\ UNCHANGED <<inputVars, clientVars, mainVars, streamVars, attempt, data, stockId,
                 calls, lastKind, outcome, counters, poolVars, dbVars>>

\* ROLLBACK resolves: failedSaves++, noRankingStocks++ and the error is
\* rethrown; the client is released and the unit boundary catches the error.
WriteRollbackResolves(u) ==
  /\ Alive
  /\ pc[u] = "W_Rollback"
  /\ rankings' = AbortRankings(rankings, u)
  /\ failedSaves' = failedSaves + 1
  /\ checkedOut' = checkedOut - 1
  /\ Throw(u, 1, "WriteError")
  /\ UNCHANGED <<inputVars, clientVars, mainVars, streamVars, stockId, lastKind, totalProcessed,
                 successfulSaves, failedRetrievals, totalInserts,
                 totalUpdates, poolEnding, stocks, stocksSeq, rankingsSeq,
                 lastWrite>>

\* ROLLBACK rejects: the catch throws before its counters; the client is
\* released and the unit boundary catches ROLLBACK's error. The connection is
\* lost, so the store ends the transaction.
WriteRollbackRejects(u) ==
  /\ Alive
  /\ pc[u] = "W_Rollback"
  /\ rankings' = AbortRankings(rankings, u)
  /\ checkedOut' = checkedOut - 1
  /\ Throw(u, 0, "WriteErrorUncounted")
  /\ UNCHANGED <<inputVars, clientVars, mainVars, streamVars, stockId, lastKind, totalProcessed,
                 successfulSaves, failedRetrievals, failedSaves, totalInserts,
                 totalUpdates, poolEnding, stocks, stocksSeq, rankingsSeq,
                 lastWrite>>

\* ------------------------------------------------------- specifications
\* One run of main on an empty store: any csv file of at most MaxRows rows,
\* a provider that may settle each call with any response, a store whose
\* every call may reject, a stream that may raise an error.
Next ==
  \/ SetupResolves
  \/ SetupRejects
  \/ StreamData
  \/ StreamEnd
  \/ StreamError
  \/ ProcessCSVSettles
  \/ PoolEndResolves
  \/ PoolEndRejects
  \/ \E u \in Units, resp \in Responses, now \in NowTimes :
       GetDataSettles(u, resp, now)
  \/ \E u \in Units : BackoffElapsed(u)
  \/ \E u \in Units : ResolveConnects(u)
  \/ \E u \in Units : ResolveConnectRejects(u)
  \/ \E u \in Units : ResolveBegins(u)
  \/ \E u \in Units : ResolveSelects(u)
  \/ \E u \in Units : ResolveInserts(u)
  \/ \E u \in Units : ResolveCommits(u)
  \/ \E u \in Units : ResolveQueryRejects(u)
  \/ \E u \in Units : ResolveRollbackSettles(u)
  \/ \E u \in Units : WriteConnects(u)
  \/ \E u \in Units : WriteConnectRejects(u)
  \/ \E u \in Units : WriteBegins(u)
  \/ \E u \in Units : WriteInserts(u)
  \/ \E u \in Units : WriteCommits(u)
  \/ \E u \in Units : WriteQueryRejects(u)
  \/ \E u \in Units : WriteRollbackResolves(u)
  \/ \E u \in Units : WriteRollbackRejects(u)

Spec == Init /\ [][Next]_vars

\* ------------------------------------------------------------------ C1
\* N rows of one ticker that the store has not seen, a provider that answers
\* every call with a ranking, and a store whose calls in getOrCreateStockId
\* may reject.
RaceFiles == { [i \in 1..n |-> Row("AAPL", "Apple")] : n \in 1..MaxRace }

RaceResponses == {Response("object", JsNum(1), JsStr("Strong Buy"), JsNull)}

InitRace == InitOn(RaceFiles, {DefaultMaxRetries}, {<<>>})

NextRace ==
  \/ SetupResolves
  \/ StreamData
  \/ StreamEnd
  \/ ProcessCSVSettles
  \/ PoolEndResolves
  \/ \E u \in Units, resp \in RaceResponses, now \in NowTimes :
       GetDataSettles(u, resp, now)
  \/ \E u \in Units : ResolveConnects(u)
  \/ \E u \in Units : ResolveBegins(u)
  \/ \E u \in Units : ResolveSelects(u)
  \/ \E u \in Units : ResolveInserts(u)
  \/ \E u \in Units : ResolveCommits(u)
  \/ \E u \in Units : ResolveQueryRejects(u)
  \/ \E u \in Units : ResolveRollbackSettles(u)
  \/ \E u \in Units : WriteConnects(u)
  \/ \E u \in Units : WriteBegins(u)
  \/ \E u \in Units : WriteInserts(u)
  \/ \E u \in Units : WriteCommits(u)

SpecRace == InitRace /\ [][NextRace]_vars

\* The units whose getOrCreateStockId call has returned an id.
Resolved == { u \in Units : stockId[u] # 0 }

\* C1: under every interleaving of N concurrent getOrCreateStockId calls for
\* one unseen ticker, stocks never holds two rows of the ticker, every call
\* that returns returns the id of the ticker's committed row, the store raises
\* no unique violation in any call, and once the run has ended with some call
\* returned the table holds exactly one row of the ticker.
C1_OneStockRow ==
  /\ \A r1, r2 \in stocks : r1.ticker = r2.ticker => r1 = r2
  /\ \A u \in Resolved :
       \E r \in stocks :
         r.committed /\ r.ticker = rows[u].ticker /\ r.id = stockId[u]
  /\ \A u, v \in Resolved : stockId[u] = stockId[v]
  /\ \A u \in Units : err[u] # "23505"
  /\ (mainPc = "Exited" /\ Resolved # {}) =>
       Cardinality({ r \in stocks : r.committed }) = 1

\* Three calls raced: the SELECT of each found no row, one INSERT inserted and
\* committed, and the two others met the conflict and returned the same id.
C1_Witness ==
  /\ Len(rows) = 3
  /\ Resolved = Units
  /\ stocksSeq = 4
  /\ Cardinality(stocks) = 1
  /\ mainPc = "Exited"

\* ------------------------------------------------------------------ C2
\* C2: zacks_rankings never holds two rows of one (stock_id, updatedAt), and
\* for every pair that has a committed write the table holds a committed row
\* of the pair that carries the zacksRankText and zacksRank of the write that
\* committed last.
C2_UpsertLastWins ==
  /\ \A r1, r2 \in rankings :
       (r1.stock_id = r2.stock_id /\ r1.updatedAt = r2.updatedAt) => r1 = r2
  /\ \A w \in lastWrite :
       \E r \in rankings :
         /\ r.committed
         /\ r.stock_id = w.stock_id
         /\ r.updatedAt = w.updatedAt
         /\ r.zacksRankText = w.zacksRankText
         /\ r.zacksRank = w.zacksRank

\* Two writes of one pair with different zacksRank have both committed, and
\* no transaction is open on the row.
C2_Witness ==
  \E w \in lastWrite :
    /\ Cardinality(w.written) = 2
    /\ \E r \in rankings :
         r.committed /\ r.writer = 0 /\ r.stock_id = w.stock_id
         /\ r.updatedAt = w.updatedAt /\ r.zacksRank = w.zacksRank

\* ------------------------------------------------------------------ C3
\* C3: when a run whose Row Source reached its end prints its summary,
\* totalProcessed = successfulSaves + failedSaves + noRankingStocks.
C3_CounterConservation ==
  (summary # <<>> /\ csvState = "resolved") =>
    summary[1] = summary[2] + summary[4] + summary[5]

\* ------------------------------------------------------------------ C4
\* C4: processCSV is resolved only in a state where the stream has emitted
\* 'end', every row has had its 'data' event and every unit is Done.
C4_CompleteOnlyWhenAllDone ==
  csvState = "resolved" =>
    /\ ended
    /\ emitted = Len(rows)
    /\ \A u \in Units : pc[u] = "Done"

\* processCSV has resolved after two units, one that saved its ranking and one
\* that ended in a store error.
C4_Witness ==
  /\ csvState = "resolved"
  /\ Len(rows) = 2
  /\ outcome[1] = "Saved"
  /\ outcome[2] = "WriteError"

\* ------------------------------------------------------------------ C5
\* A provider whose calls either raise an error or answer with one ranking;
\* the store and the stream may fail as in Spec.
IsolationResponses ==
  {ThrowResponse,
   Response("object", JsNum(1), JsStr("Strong Buy"), JsStr("2024-01-01"))}

\* The pending await of row u's unit settles, one way or the other, and the
\* unit runs to its next await or to its end.
UnitStep(u) ==
  /\ u \in Units
  /\ \/ \E resp \in IsolationResponses, now \in NowTimes :
          GetDataSettles(u, resp, now)
     \/ BackoffElapsed(u)
     \/ ResolveConnects(u)
     \/ ResolveConnectRejects(u)
     \/ ResolveBegins(u)
     \/ ResolveSelects(u)
     \/ ResolveInserts(u)
     \/ ResolveCommits(u)
     \/ ResolveQueryRejects(u)
     \/ ResolveRollbackSettles(u)
     \/ WriteConnects(u)
     \/ WriteConnectRejects(u)
     \/ WriteBegins(u)
     \/ WriteInserts(u)
     \/ WriteCommits(u)
     \/ WriteQueryRejects(u)
     \/ WriteRollbackResolves(u)
     \/ WriteRollbackRejects(u)

NextFair ==
  \/ SetupResolves
  \/ SetupRejects
  \/ StreamData
  \/ StreamEnd
  \/ StreamError
  \/ ProcessCSVSettles
  \/ PoolEndResolves
  \/ PoolEndRejects
  \/ \E u \in Units, resp \in IsolationResponses, now \in NowTimes :
       GetDataSettles(u, resp, now)
  \/ \E u \in Units : BackoffElapsed(u)
  \/ \E u \in Units : ResolveConnects(u)
  \/ \E u \in Units : ResolveConnectRejects(u)
  \/ \E u \in Units : ResolveBegins(u)
  \/ \E u \in Units : ResolveSelects(u)
  \/ \E u \in Units : ResolveInserts(u)
  \/ \E u \in Units : ResolveCommits(u)
  \/ \E u \in Units : ResolveQueryRejects(u)
  \/ \E u \in Units : ResolveRollbackSettles(u)
  \/ \E u \in Units : WriteConnects(u)
  \/ \E u \in Units : WriteConnectRejects(u)
  \/ \E u \in Units : WriteBegins(u)
  \/ \E u \in Units : WriteInserts(u)
  \/ \E u \in Units : WriteCommits(u)
  \/ \E u \in Units : WriteQueryRejects(u)
  \/ \E u \in Units : WriteRollbackResolves(u)
  \/ \E u \in Units : WriteRollbackRejects(u)

\* The event loop runs every continuation whose await has settled, and every
\* await of a unit settles in the end.
SpecFair ==
  /\ Init
  /\ [][NextFair]_vars
  /\ \A u \in 1..MaxRows : WF_vars(UnitStep(u))

\* The outcomes of a unit that are a failure of its row.
PerRowFailures ==
  {"Failed", "ResolveError", "WriteError", "WriteErrorUncounted"}

C5_Isolated ==
  /\ csvState = "rejected" => fatal = "rowsource"
  /\ \A u \in Units : pc[u] # "Rejected"
  /\ \A u \in Units : outcome[u] \in PerRowFailures => pc[u] = "Done"

\* C5: processCSV rejects on a stream error only, no unit's promise rejects,
\* every failure of a row leaves its unit Done, and every started unit gets
\* to Done whatever its siblings met (unless the stream raised an error and
\* the process exited first).
C5_PerRowIsolation ==
  /\ []C5_Isolated
  /\ \A u \in 1..MaxRows :
       (u \in Units /\ pc[u] # "Idle")
         ~> ((u \in Units /\ pc[u] = "Done") \/ fatal = "rowsource")

\* The ROLLBACK of the first row's write failed, the second row saved its
\* ranking, and processCSV resolved.
C5_Witness ==
  /\ Len(rows) = 2
  /\ outcome[1] = "WriteErrorUncounted"
  /\ outcome[2] = "Saved"
  /\ csvState = "resolved"
  /\ fatal = "none"

\* ------------------------------------------------------------------ C6
\* Any maxRetries of 1..MaxRetriesBound, a provider whose every call raises an
\* error, and no other fault.
InitRetry == InitOn(CsvFiles(MaxRows), 1..MaxRetriesBound, {<<>>})

NextRetry ==
  \/ SetupResolves
  \/ StreamData
  \/ StreamEnd
  \/ ProcessCSVSettles
  \/ PoolEndResolves
  \/ \E u \in Units, resp \in {ThrowResponse}, now \in NowTimes :
       GetDataSettles(u, resp, now)
  \/ \E u \in Units : BackoffElapsed(u)

SpecRetry == InitRetry /\ [][NextRetry]_vars

\* A log of provider calls and backoff waits that starts with a call and in
\* which calls and waits alternate.
Alternating(log) ==
  \A i \in 1..Len(log) : log[i] = IF i % 2 = 1 THEN "call" ELSE "wait"

\* While getDataWithRetry runs, the log alternates, attempt counts the calls
\* made, a wait is only entered with an attempt left, and a unit that is Done
\* has the outcome Failed, each counted once in failedRetrievals.
C6_RetryLog ==
  /\ \A u \in Units :
       /\ Alternating(calls[u])
       /\ pc[u] = "ApiCall" =>
            Len(calls[u]) = 2 * attempt[u] - 1 /\ attempt[u] <= maxRetries
       /\ pc[u] = "Backoff" =>
            Len(calls[u]) = 2 * attempt[u] /\ attempt[u] < maxRetries
       /\ pc[u] = "Done" => outcome[u] = "Failed"
  /\ failedRetrievals = Cardinality({ u \in Units : outcome[u] = "Failed" })

\* The step in which a unit's fetch becomes Failed is taken from the call of
\* attempt maxRetries, with maxRetries calls and maxRetries - 1 waits in the
\* log, the last entry a call, and adds one to failedRetrievals.
C6_FailedStep ==
  \A u \in Units :
    (outcome[u] # "Failed" /\ outcome'[u] = "Failed") =>
      /\ attempt[u] = maxRetries
      /\ Len(calls[u]) = 2 * maxRetries - 1
      /\ failedRetrievals' = failedRetrievals + 1

\* C6: with a provider whose every call raises an error, getDataWithRetry
\* makes exactly maxRetries calls and maxRetries - 1 waits, each wait between
\* two calls and none after the last call, and ends Failed with
\* failedRetrievals incremented once.
C6_RetryBound == []C6_RetryLog /\ [][C6_FailedStep]_vars

\* With maxRetries = 3 the fetch of the first of two rows has ended Failed and
\* the second row is waiting between its second and third call.
C6_Witness ==
  /\ maxRetries = MaxRetriesBound
  /\ Len(rows) = 2
  /\ outcome[1] = "Failed"
  /\ failedRetrievals = 1
  /\ pc[2] = "Backoff"
  /\ calls[2] = <<"call", "wait", "call", "wait">>

\* ------------------------------------------------------------------ C7
\* Once the provider has answered a call of row u with null, the unit is Done
\* with the outcome NoRanking, no call or wait is pending and
\* getOrCreateStockId was never entered.
C7_NullIsTerminal ==
  \A u \in Units :
    lastKind[u] = "null" =>
      /\ pc[u] = "Done"
      /\ outcome[u] = "NoRanking"
      /\ calls[u] = <<>>
      /\ stockId[u] = 0

\* The step that receives the null adds one to noRankingStocks and leaves
\* failedRetrievals, failedProcessing, the pool and the tables alone.
C7_NullStep ==
  \A u \in Units :
    (lastKind[u] # "null" /\ lastKind'[u] = "null") =>
      /\ noRankingStocks' = noRankingStocks + 1
      /\ UNCHANGED <<failedRetrievals, failedProcessing, poolVars, dbVars>>

\* C7: a null response is terminal on whichever attempt it is received: no
\* further call, no wait, noRankingStocks incremented once, failedRetrievals
\* not at all, no store operation, and no error caught at the unit boundary.
C7_NullTerminal == []C7_NullIsTerminal /\ [][C7_NullStep]_vars

\* A one-row run has printed its summary after the provider answered the row
\* with null: noRankingStocks is 1, failedRetrievals and failedProcessing 0.
C7_Witness ==
  /\ Len(rows) = 1
  /\ lastKind[1] = "null"
  /\ summary # <<>>
  /\ summary[5] = 1
  /\ summary[3] = 0
  /\ summary[8] = 0

\* ------------------------------------------------------------------ C8
\* C8: the process ends with a non-success status exactly when the stream
\* raised an error or setup failed, and with success otherwise.
C8_ExitStatus ==
  mainPc = "Exited" => ((exitStatus # 0) <=> (fatal # "none"))

\* ------------------------------------------------------------------ C9
\* The payloads of a provider that answers every call for a ticker alike,
\* with an updatedAt that parses.
TwicePayloads ==
  ParseablePayloads
    \cup {Response("object", JsStr("abc"), JsStr("Buy"), JsStr("2024-01-01"))}

Tickers == { r.ticker : r \in RowSet }

\* The committed rows of the two tables: the tickers, the (stock_id,
\* updatedAt, zacksRankText, zacksRank) of the rankings, and the row counts.
Tables ==
  [tickers  |-> { r.ticker : r \in { x \in stocks : x.committed } },
   rankings |-> { <<r.stock_id, r.updatedAt, r.zacksRankText, r.zacksRank>> :
                    r \in { x \in rankings : x.committed } },
   nStocks  |-> Cardinality(stocks),
   nRankings |-> Cardinality(rankings)]

\* The program is started again on the store the first run left: a new
\* process, with its counters at 0, the same stocks.csv and provider.
Restart ==
  /\ mainPc = "Exited"
  /\ run = 1
  /\ run' = 2
  /\ firstRun' = Tables
  /\ mainPc' = "Setup"
  /\ fatal' = "none"
  /\ exitStatus' = -1
  /\ summary' = <<>>
  /\ emitted' = 0
  /\ ended' = FALSE
  /\ csvState' = "pending"
  /\ pc' = [u \in Units |-> "Idle"]
  /\ attempt' = [u \in Units |-> 0]
  /\ data' = [u \in Units |-> NoData]
  /\ res' = [u \in Units |-> 0]
  /\ stockId' = [u \in Units |-> 0]
  /\ err' = [u \in Units |-> "none"]
  /\ calls' = [u \in Units |-> <<>>]
  /\ lastKind' = [u \in Units |-> "none"]
  /\ outcome' = [u \in Units |-> "none"]
  /\ totalProcessed' = 0
  /\ successfulSaves' = 0
  /\ failedRetrievals' = 0
  /\ failedSaves' = 0
  /\ noRankingStocks' = 0
  /\ totalInserts' = 0
  /\ totalUpdates' = 0
  /\ failedProcessing' = 0
  /\ checkedOut' = 0
  /\ poolEnding' = FALSE
  /\ UNCHANGED <<inputVars, clientVars, dbVars>>

InitTwice ==
  InitOn(CsvFiles(MaxRows), {DefaultMaxRetries}, [Tickers -> TwicePayloads])

NextTwice ==
  \/ SetupResolves
  \/ StreamData
  \/ StreamEnd
  \/ ProcessCSVSettles
  \/ PoolEndResolves
  \/ Restart
  \/ \E u \in Units, now \in NowTimes :
       GetDataSettles(u, provider[rows[u].ticker], now)
  \/ \E u \in Units : ResolveConnects(u)
  \/ \E u \in Units : ResolveBegins(u)
  \/ \E u \in Units : ResolveSelects(u)
  \/ \E u \in Units : ResolveInserts(u)
  \/ \E u \in Units : ResolveCommits(u)
  \/ \E u \in Units : WriteConnects(u)
  \/ \E u \in Units : WriteBegins(u)
  \/ \E u \in Units : WriteInserts(u)
  \/ \E u \in Units : WriteCommits(u)

SpecTwice == InitTwice /\ [][NextTwice]_vars

\* C9: when the second of two runs in sequence has ended, stocks and
\* zacks_rankings hold the rows they held when the first run ended.
C9_Idempotent ==
  (run = 2 /\ mainPc = "Exited") => Tables = firstRun

\* The second run of a file with two rows of one ticker has ended: both of
\* its writes were updates of the one ranking the first run left.
C9_Witness ==
  /\ run = 2
  /\ mainPc = "Exited"
  /\ Len(rows) = 2
  /\ rows[1].ticker = rows[2].ticker
  /\ summary # <<>>
  /\ summary[7] = 2
  /\ firstRun.nRankings = 1

\* ------------------------------------------------------------------ C10
\* The step in which the store applies the write of row u reports inserted
\* exactly when the table held no row of (stock_id, updatedAt), and the step
\* in which the write commits adds one to totalInserts if it was reported
\* inserted and one to totalUpdates if not.
C10_Reported ==
  \A u \in Units :
    /\ (pc[u] = "W_Insert" /\ pc'[u] = "W_Commit") =>
         (res'[u] = 1 <=>
            ~\E r \in rankings :
               r.stock_id = stockId[u] /\ r.updatedAt = ParamAt(data[u]))
    /\ (pc[u] = "W_Commit" /\ outcome'[u] = "Saved") =>
         /\ totalInserts' = totalInserts + res[u]
         /\ totalUpdates' = totalUpdates + (1 - res[u])

\* A run of two rows has printed its summary, both rows were saved and their
\* writes were on one (stock_id, updatedAt).
SamePairSaved ==
  /\ summary # <<>>
  /\ Len(rows) = 2
  /\ outcome[1] = "Saved"
  /\ outcome[2] = "Saved"
  /\ Cardinality(lastWrite) = 1

C10_Scenario ==
  SamePairSaved =>
    /\ Cardinality(stocks) = 1
    /\ Cardinality(rankings) = 1
    /\ summary[1] = 2
    /\ summary[6] = 1
    /\ summary[7] = 1

\* C10: a write is counted in totalInserts exactly when no row of its
\* (stock_id, updatedAt) existed when the store applied it and in
\* totalUpdates exactly when one existed; two rows of one ticker and one
\* updatedAt that are both saved end with 1 stocks row, 1 zacks_rankings row,
\* totalProcessed 2, totalInserts 1 and totalUpdates 1.
C10_WriteOutcome == []C10_Scenario /\ [][C10_Reported]_vars

\* Two rows of one ticker raced with payloads of one updatedAt and different
\* ranks; both were saved and the summary is printed.
C10_Witness ==
  /\ SamePairSaved
  /\ \E w \in lastWrite : Cardinality(w.written) = 2

\* ------------------------------------------------------------------ C11
\* A provider that answers every call for a ticker with one payload that has
\* zacksRank and zacksRankText and whose updatedAt parses, does not parse or
\* is absent; a store without faults; runs as in SpecTwice.
InitLenient ==
  InitOn(CsvFiles(MaxRows), {DefaultMaxRetries}, [Tickers -> GoodPayloads])

SpecLenient == InitLenient /\ [][NextTwice]_vars

\* What the updatedAt of row u's payload has to become: the parsed time if it
\* parses, the wall clock if not.
ExpectedAt(u) ==
  LET at == provider[rows[u].ticker].updatedAt
  IN  IF at.t \in {"str", "date"} /\ DateOf(at) # InvalidTime
        THEN {DateOf(at)}
        ELSE NowTimes

\* C11: a payload with zacksRank and zacksRankText is never rejected for its
\* updatedAt: the unit carries it into getOrCreateStockId and
\* saveZacksRanking with updatedAt the parsed date if it parses and the
\* current time if it does not or is absent, and the row is saved with it.
C11_Lenient ==
  \A u \in Units :
    /\ outcome[u] \in {"none", "Saved"}
    /\ data[u] # NoData =>
         /\ data[u].updatedAt.t = "date"
         /\ data[u].updatedAt.n \in ExpectedAt(u)
         /\ data[u].zacksRank = provider[rows[u].ticker].zacksRank
    /\ outcome[u] = "Saved" =>
         \E r \in rankings :
           r.committed /\ r.stock_id = stockId[u] /\ r.updatedAt \in ExpectedAt(u)

\* A row whose payload has an updatedAt that does not parse and a row whose
\* payload has one that parses were both saved, the first at the current
\* time and the second at the parsed date.
C11_Witness ==
  /\ Len(rows) = 2
  /\ provider[rows[1].ticker].updatedAt = JsStr("garbage")
  /\ provider[rows[2].ticker].updatedAt = JsStr("2024-01-01")
  /\ outcome[1] = "Saved"
  /\ outcome[2] = "Saved"
  /\ \E r \in rankings : r.stock_id = stockId[1] /\ r.updatedAt \in NowTimes
  /\ \E r \in rankings : r.stock_id = stockId[2] /\ r.updatedAt = 1

\* ------------------------------------------------------------------ C12
\* C12: a process that has exited has printed the counters.
C12_SummaryPrinted == mainPc = "Exited" => summary # <<>>

\* ------------------------------------------------------------------ C13
\* The number of units that ended with one of the outcomes kinds.
Count(kinds) == Cardinality({ u \in Units : outcome[u] \in kinds })

\* The outcomes of a unit that ended on a store error in getOrCreateStockId
\* or in saveZacksRanking.
StoreErrors == {"ResolveError", "WriteError", "WriteErrorUncounted"}

\* C13: failedSaves is the number of rows whose unit ended on a store error
\* raised in getOrCreateStockId or in saveZacksRanking.
C13_StoreErrorsCounted == failedSaves = Count(StoreErrors)

\* ------------------------------------------------------------------ C14
\* C14: a row whose payload was rejected by validation made no store
\* round-trip: getOrCreateStockId returned no id for it.
C14_ValidationFirst ==
  \A u \in Units : outcome[u] \in {"Incomplete", "Rejected"} => stockId[u] = 0

\* ------------------------------------------------------------------ C15
\* C15: once the provider has answered row u with a non-null value that is no
\* object, the unit is Done, without another call or wait and without the
\* outcome Failed.
C15_MalformedIsTerminal ==
  \A u \in Units :
    lastKind[u] = "string" => (pc[u] = "Done" /\ outcome[u] # "Failed")

\* ------------------------------------------------------------------ C16
\* C16: under every interleaving of the units, each counter is the number of
\* increment statements the units have executed on it, read from how far the
\* stream got and from the outcome each unit ended with.
C16_CountersExact ==
  /\ totalProcessed = emitted
  /\ successfulSaves = Count({"Saved"})
  /\ totalInserts + totalUpdates = Count({"Saved"})
  /\ failedRetrievals = Count({"Failed"})
  /\ failedSaves = Count({"WriteError"})
  /\ failedProcessing = Count(StoreErrors)
  /\ noRankingStocks =
       Count({"NoRanking", "Incomplete", "Failed", "Rejected"})
         + Count(StoreErrors) + Count({"WriteError"})

\* The second row's write failed and was counted while the first row, started
\* before it, is still in its ROLLBACK, after the failure of its own write.
C16_Witness ==
  /\ Len(rows) = 2
  /\ outcome[2] = "WriteError"
  /\ pc[1] = "W_Rollback"
  /\ failedSaves = 1
  /\ failedProcessing = 1
  /\ noRankingStocks = 2

\* ------------------------------------------------------------------ C19
\* C19: successfulSaves = totalInserts + totalUpdates in every state, in the
\* summary too, and successfulSaves is at most the number of rows whose write
\* committed.
C19_SavesAreWrites ==
  /\ successfulSaves = totalInserts + totalUpdates
  /\ successfulSaves <= Count({"Saved"})
  /\ summary # <<>> => summary[2] = summary[6] + summary[7]

\* A run of two rows has printed its summary with two saves, one an insert
\* and one an update of the same ranking.
C19_Witness ==
  /\ summary # <<>>
  /\ summary[2] = 2
  /\ summary[6] = 1
  /\ summary[7] = 1
  /\ Cardinality(rankings) = 1

\* ------------------------------------------------------------- index.js
\* main of index.js: one client, taken from the pool at line 13, carries the
\* queries of every unit.  The client sends one query at a time, in the order
\* client.query was called; there are no transactions and no counters.
IndexResponses ==
  {ThrowResponse, NullResponse,
   Response("object", JsNum(1), JsStr("Strong Buy"), JsStr("2024-01-01"))}

\* await setup() and await pool.connect() resolve; processCSV opens the stream.
IndexSetupResolves ==
  /\ mainPc = "Setup"
  /\ mainPc' = "Running"
  /\ checkedOut' = 1
  /\ UNCHANGED <<inputVars, clientVars, fatal, exitStatus, summary, run,
                 firstRun, streamVars, unitVars, counters, poolEnding, dbVars>>

\* stream.on("data"): the unit of the next row starts and runs to the
\* api.getData call of attempt 1.
IndexStreamData ==
  /\ mainPc = "Running"
  /\ csvState = "pending"
  /\ ~ended
  /\ emitted < Len(rows)
  /\ LET u == emitted + 1 IN
       /\ emitted' = u
       /\ pc' = [pc EXCEPT ![u] = "ApiCall"]
       /\ attempt' = [attempt EXCEPT ![u] = 1]
       /\ calls' = [calls EXCEPT ![u] = <<"call">>]
  /\ UNCHANGED <<inputVars, clientVars, mainVars, ended, csvState, data, res,
                 stockId, err, lastKind, outcome, counters, poolVars, dbVars>>

\* await api.getData(ticker) settles: a rejection is retried while
\* attempt < maxRetries and then gives null; a falsy result ends the unit; any
\* other result is returned as it is and getStockId sends its SELECT.
IndexGetDataSettles(u, resp) ==
  /\ Alive
  /\ pc[u] = "ApiCall"
  /\ lastKind' = [lastKind EXCEPT ![u] = resp.kind]
  /\ IF resp.kind = "throw" /\ RetryLeft(attempt[u])
       THEN /\ pc' = [pc EXCEPT ![u] = "Backoff"]
            /\ calls' = [calls EXCEPT ![u] = Append(calls[u], "wait")]
            /\ UNCHANGED <<attempt, data, res, err, outcome, queue>>
       ELSE IF resp.kind = "throw"
       THEN Finish(u, "Failed") /\ UNCHANGED queue
       ELSE IF resp.kind = "null"
       THEN Finish(u, "NoRanking") /\ UNCHANGED queue
       ELSE /\ data' = [data EXCEPT ![u] = resp]
            /\ pc' = [pc EXCEPT ![u] = "I_Select"]
            /\ queue' = Append(queue, u)
            /\ attempt' = [attempt EXCEPT ![u] = 0]
            /\ calls' = [calls EXCEPT ![u] = <<>>]
            /\ UNCHANGED <<res, err, outcome>>
  /\ UNCHANGED <<inputVars, hung, mainVars, streamVars, stockId, counters,
                 poolVars, dbVars>>

\* The client's query of unit u is the one on the wire and its round-trip
\* returns.
Returns(u) ==
  /\ Alive
  /\ queue # <<>>
  /\ Head(queue) = u
  /\ hung # u

\* The SELECT of getStockId resolves: with a row, its id is returned and
\* saveZacksRanking sends its INSERT; with none, getStockId sends its INSERT.
GetStockIdSelects(u) ==
  /\ Returns(u)
  /\ pc[u] = "I_Select"
  /\ LET found == SelectStock(stocks, rows[u].ticker) IN
       IF found # {}
         THEN /\ stockId' = [stockId EXCEPT ![u] = (CHOOSE r \in found : TRUE).id]
              /\ pc' = [pc EXCEPT ![u] = "I_Save"]
         ELSE /\ pc' = [pc EXCEPT ![u] = "I_Insert"]
              /\ UNCHANGED stockId
  /\ queue' = Append(Tail(queue), u)
  /\ UNCHANGED <<inputVars, hung, mainVars, streamVars, attempt, data, res,
                 err, calls, lastKind, outcome, counters, poolVars, dbVars>>

\* INSERT INTO stocks (ticker, name) VALUES ($1, $2) RETURNING id, in its own
\* transaction: a row of the ticker raises unique_violation.
InsertStockIndex(tbl, seq, tk, nm) ==
  IF \E r \in tbl : r.ticker = tk
    THEN [tbl |-> tbl, id |-> 0, code |-> "23505"]
    ELSE [tbl |-> tbl \cup {StockRow(seq, tk, nm, TRUE, 0, "")},
          id |-> seq, code |-> "none"]

\* The INSERT of getStockId settles: resolved, the id is returned and
\* saveZacksRanking sends its INSERT; rejected, the error leaves getStockId
\* and the catch of the unit logs it.
GetStockIdInserts(u) ==
  /\ Returns(u)
  /\ pc[u] = "I_Insert"
  /\ LET r == InsertStockIndex(stocks, stocksSeq, rows[u].ticker, rows[u].name)
     IN  /\ stocks' = r.tbl
         /\ stocksSeq' = stocksSeq + 1
         /\ IF r.code = "none"
              THEN /\ stockId' = [stockId EXCEPT ![u] = r.id]
                   /\ pc' = [pc EXCEPT ![u] = "I_Save"]
                   /\ queue' = Append(Tail(queue), u)
                   /\ UNCHANGED <<attempt, data, res, err, calls, outcome>>
              ELSE /\ Finish(u, "ResolveError")
                   /\ queue' = Tail(queue)
                   /\ UNCHANGED stockId
  /\ UNCHANGED <<inputVars, hung, mainVars, streamVars, lastKind, counters,
                 poolVars, rankings, rankingsSeq, lastWrite>>

\* INSERT INTO zacks_rankings ... VALUES ($1, $2, $3, $4), in its own
\* transaction; updatedAt is the string the provider gave, read as TIMESTAMP.
InsertRankingIndex(tbl, seq, sid, d) ==
  IF \E r \in tbl : r.stock_id = sid /\ r.updatedAt = DateOf(d.updatedAt)
    THEN [tbl |-> tbl, code |-> "23505"]
    ELSE [tbl |-> tbl \cup
                  {RankingRow(seq, sid, ParamText(d), ParamRank(d),
                              DateOf(d.updatedAt), TRUE, 0, "", 0)},
          code |-> "none"]

\* The INSERT of saveZacksRanking settles: resolved, the row is saved;
\* rejected with 23505, the catch logs the duplicate.  The unit ends.
SaveRankingInserts(u) ==
  /\ Returns(u)
  /\ pc[u] = "I_Save"
  /\ LET r == InsertRankingIndex(rankings, rankingsSeq, stockId[u], data[u])
     IN  /\ rankings' = r.tbl
         /\ rankingsSeq' = rankingsSeq + 1
         /\ Finish(u, IF r.code = "none" THEN "Saved" ELSE "Duplicate")
  /\ queue' = Tail(queue)
  /\ UNCHANGED <<inputVars, hung, mainVars, streamVars, stockId, lastKind,
                 counters, poolVars, stocks, stocksSeq, lastWrite>>

\* The round-trip of the query on the wire never returns.
QueryHangs(u) ==
  /\ Alive
  /\ hung = 0
  /\ queue # <<>>
  /\ Head(queue) = u
  /\ hung' = u
  /\ UNCHANGED <<inputVars, queue, mainVars, streamVars, unitVars, counters,
                 poolVars, dbVars>>

\* The finally block of main: client.release() and pool.end() resolve, main
\* resolves and .finally calls process.exit(0).
IndexPoolEndResolves ==
  /\ mainPc = "PoolEnd"
  /\ checkedOut' = 0
  /\ mainPc' = "Exited"
  /\ exitStatus' = 0
  /\ UNCHANGED <<inputVars, clientVars, fatal, summary, run, firstRun,
                 streamVars, unitVars, counters, poolEnding, dbVars>>

\* The pending await of row u's unit settles.
IndexUnitStep(u) ==
  /\ u \in Units
  /\ \/ \E resp \in IndexResponses : IndexGetDataSettles(u, resp)
     \/ BackoffElapsed(u)
     \/ GetStockIdSelects(u)
     \/ GetStockIdInserts(u)
     \/ SaveRankingInserts(u)

InitIndex == InitOn(CsvFiles(MaxRows), {DefaultMaxRetries}, {<<>>})

NextIndex ==
  \/ IndexSetupResolves
  \/ IndexStreamData
  \/ StreamEnd
  \/ ProcessCSVSettles
  \/ IndexPoolEndResolves
  \/ \E u \in Units, resp \in IndexResponses : IndexGetDataSettles(u, resp)
  \/ \E u \in Units : BackoffElapsed(u)
  \/ \E u \in Units : GetStockIdSelects(u)
  \/ \E u \in Units : GetStockIdInserts(u)
  \/ \E u \in Units : SaveRankingInserts(u)
  \/ \E u \in Units : QueryHangs(u)

\* One run of index.js in which at most one round-trip hangs; every other
\* await of a unit settles in the end.
SpecIndex ==
  /\ InitIndex
  /\ [][NextIndex]_vars
  /\ \A u \in 1..MaxRows : WF_vars(IndexUnitStep(u))

\* ------------------------------------------------------------------ C17
\* C17: every started unit reaches Done, but for the unit whose own
\* round-trip hangs.
C17_HangBlocksItsUnitOnly ==
  \A v \in 1..MaxRows :
    (v \in Units /\ pc[v] # "Idle")
      ~> (v \in Units /\ (pc[v] = "Done" \/ hung = v))

\* ------------------------------------------------------------------ C18
\* C18: stocks holds one row per ticker and no getStockId call of a unit
\* fails: every unit that entered getStockId gets an id.
C18_GetStockIdSafe ==
  /\ \A r1, r2 \in stocks : r1.ticker = r2.ticker => r1 = r2
  /\ \A u \in Units : outcome[u] # "ResolveError"

====
